---- MODULE Spec2Model ----
(***************************************************************************)
(* A model of the mercy crate (src/src/lib.rs): the string-keyed dispatch  *)
(* functions, rot13, the hex dump, the host-information query and the      *)
(* domain-classification lookup with its artifact file at the fixed path   *)
(* /tmp/mercy_domain_review.json.                                          *)
(*                                                                         *)
(* Texts (response bodies, file contents) are sequences of one-character   *)
(* strings; rot13 works on sequences of Unicode code points.               *)
(***************************************************************************)
EXTENDS Integers, Sequences, FiniteSets, TLC

\* Bounds of the model.
NumCalls == 2
MaxLen == 2

VARIABLES
  \* ---- the domain-classification lookup ----
  pc,            \* pc[c]: the next step of lookup call c
  domain,        \* domain[c]: the argument of call c
  fileExists,    \* whether /tmp/mercy_domain_review.json exists
  fileContent,   \* its content
  handle,        \* handle[c]: the File of url_request: none, linked, orphan
  body,          \* body[c]: the response text of call c
  json_convert,  \* json_convert[c]: the text call c read back
  result,        \* result[c]: the String returned, or the panic message
  steps,         \* steps[c]: the steps call c has performed, in order
  found,         \* found[c]: what call c found at the path when it created it
  \* ---- mercy_decode("rot13", s) ----
  rotIn,         \* the string given to the first call
  rotOut,        \* the string returned by the last call
  rotCount,      \* how many times rot13 has been applied
  \* ---- mercy_hex("hex_dump", p) and the other process working on p ----
  hexPc,         \* the next step of the hex dump
  pathExists,    \* whether p exists
  pathContent,   \* the bytes of the file at p
  hexFile,       \* the bytes of the file the dump has open
  hexBuffer,     \* buffer of byte_to_vec
  hexOpenMissing,\* whether File::open found p missing
  hexResult,     \* the String returned, or the panic message
  \* ---- the six dispatch functions ----
  dispCall,      \* the last call: <<function, mercy_call, payload>>
  dispOut,       \* what it did: a message returned, or a handler called
  dispEffects,   \* the kinds of I/O it performed
  \* ---- system_info ----
  exposed,       \* the values the operating system exposes
  sysData,       \* the sub-selector of the last call
  sysResult      \* the String returned (in pieces), or the panic

lookupVars == <<pc, domain, fileExists, fileContent, handle, body,
                json_convert, result, steps, found>>

rotVars == <<rotIn, rotOut, rotCount>>
hexVars == <<hexPc, pathExists, pathContent, hexFile, hexBuffer, hexOpenMissing, hexResult>>
dispVars == <<dispCall, dispOut, dispEffects>>
sysVars == <<exposed, sysData, sysResult>>

otherThanLookup == <<rotVars, hexVars, dispVars, sysVars>>

vars == <<lookupVars, rotVars, hexVars, dispVars, sysVars>>

----------------------------------------------------------------------------
\* Characters and texts.

Q == "\""
Ws == {" ", "\n", "\t", "\r"}

Quoted(s) == <<Q>> \o s \o <<Q>>

KeyData == <<"d", "a", "t", "a">>
KeyClassification ==
  <<"c", "l", "a", "s", "s", "i", "f", "i", "c", "a", "t", "i", "o", "n">>
MALICIOUS == <<"M", "A", "L", "I", "C", "I", "O", "U", "S">>
UNKNOWN == <<"U", "N", "K", "N", "O", "W", "N">>
SUSPICIOUS == <<"S", "U", "S", "P", "I", "C", "I", "O", "U", "S">>
LowerMalicious == <<"m", "a", "l", "i", "c", "i", "o", "u", "s">>
LitNull == <<"n", "u", "l", "l">>
LitTrue == <<"t", "r", "u", "e">>
LitFalse == <<"f", "a", "l", "s", "e">>

\* {"classification":"<v>"}
Record(v) == <<"{">> \o Quoted(KeyClassification) \o <<":">> \o Quoted(v) \o <<"}">>
\* {"data":[<elems>]}
DataDoc(elems) == <<"{">> \o Quoted(KeyData) \o <<":", "[">> \o elems \o <<"]", "}">>

----------------------------------------------------------------------------
\* serde_json::from_str::<Value>, for texts over the characters used here
\* (braces, brackets, colon, comma, quote, letters, white space): objects,
\* arrays, strings without escapes, and the literals null, true, false.

JNull == [t |-> "null"]
JBool == [t |-> "bool"]
JStr(s) == [t |-> "str", s |-> s]
JArr(a) == [t |-> "arr", a |-> a]
JObj(m) == [t |-> "obj", m |-> m]

Fail(i) == [ok |-> FALSE, v |-> JNull, i |-> i]
Ok(v, i) == [ok |-> TRUE, v |-> v, i |-> i]

RECURSIVE SkipWs(_, _)
SkipWs(s, i) == IF i <= Len(s) /\ s[i] \in Ws THEN SkipWs(s, i + 1) ELSE i

HasAt(s, i, lit) ==
  /\ i + Len(lit) - 1 <= Len(s)
  /\ SubSeq(s, i, i + Len(lit) - 1) = lit

\* The index of the quote closing a string whose content starts at i; 0 if none.
RECURSIVE ScanString(_, _)
ScanString(s, i) ==
  IF i > Len(s) THEN 0
  ELSE IF s[i] = Q THEN i
  ELSE IF s[i] \in {"\n", "\t", "\r"} THEN 0
  ELSE ScanString(s, i + 1)

RECURSIVE ParseValue(_, _)
RECURSIVE ParseElems(_, _, _)
RECURSIVE ParseMembers(_, _, _)

ParseValue(s, i0) ==
  LET i == SkipWs(s, i0) IN
  IF i > Len(s) THEN Fail(i)
  ELSE IF s[i] = "n" THEN (IF HasAt(s, i, LitNull) THEN Ok(JNull, i + 4) ELSE Fail(i))
  ELSE IF s[i] = "t" THEN (IF HasAt(s, i, LitTrue) THEN Ok(JBool, i + 4) ELSE Fail(i))
  ELSE IF s[i] = "f" THEN (IF HasAt(s, i, LitFalse) THEN Ok(JBool, i + 5) ELSE Fail(i))
  ELSE IF s[i] = Q THEN
    LET j == ScanString(s, i + 1) IN
    IF j = 0 THEN Fail(i) ELSE Ok(JStr(SubSeq(s, i + 1, j - 1)), j + 1)
  ELSE IF s[i] = "[" THEN
    LET k == SkipWs(s, i + 1) IN
    IF k <= Len(s) /\ s[k] = "]" THEN Ok(JArr(<<>>), k + 1)
    ELSE ParseElems(s, i + 1, <<>>)
  ELSE IF s[i] = "{" THEN
    LET k == SkipWs(s, i + 1) IN
    IF k <= Len(s) /\ s[k] = "}" THEN Ok(JObj(<<>>), k + 1)
    ELSE ParseMembers(s, i + 1, <<>>)
  ELSE Fail(i)

ParseElems(s, i, acc) ==
  LET r == ParseValue(s, i) IN
  IF ~r.ok THEN Fail(r.i)
  ELSE LET k == SkipWs(s, r.i) IN
       IF k > Len(s) THEN Fail(k)
       ELSE IF s[k] = "," THEN ParseElems(s, k + 1, Append(acc, r.v))
       ELSE IF s[k] = "]" THEN Ok(JArr(Append(acc, r.v)), k + 1)
       ELSE Fail(k)

ParseMembers(s, i, acc) ==
  LET k == SkipWs(s, i) IN
  IF k > Len(s) \/ s[k] # Q THEN Fail(k)
  ELSE LET j == ScanString(s, k + 1) IN
       IF j = 0 THEN Fail(k)
       ELSE LET c == SkipWs(s, j + 1) IN
            IF c > Len(s) \/ s[c] # ":" THEN Fail(c)
            ELSE LET r == ParseValue(s, c + 1) IN
                 IF ~r.ok THEN Fail(r.i)
                 ELSE LET e == SkipWs(s, r.i)
                          m == Append(acc, <<SubSeq(s, k + 1, j - 1), r.v>>)
                      IN IF e > Len(s) THEN Fail(e)
                         ELSE IF s[e] = "," THEN ParseMembers(s, e + 1, m)
                         ELSE IF s[e] = "}" THEN Ok(JObj(m), e + 1)
                         ELSE Fail(e)

\* The whole text must be one value, followed by white space only.
from_str(s) ==
  LET r == ParseValue(s, 1) IN
  IF r.ok /\ SkipWs(s, r.i) > Len(s) THEN [ok |-> TRUE, v |-> r.v]
  ELSE [ok |-> FALSE, v |-> JNull]

\* Value's Index<&str>: the member named key (the last one inserted under that
\* name), Null when v is no object or has no such member.
RECURSIVE Lookup(_, _, _)
Lookup(m, key, n) ==
  IF n = 0 THEN JNull
  ELSE IF m[n][1] = key THEN m[n][2]
  ELSE Lookup(m, key, n - 1)

IndexKey(v, key) == IF v.t = "obj" THEN Lookup(v.m, key, Len(v.m)) ELSE JNull

\* Value's Index<usize>: element n (from 0), Null when v is no array or is short.
IndexPos(v, n) == IF v.t = "arr" /\ n < Len(v.a) THEN v.a[n + 1] ELSE JNull

\* Value == &str: v is a string with exactly that content.
EqStr(v, s) == v.t = "str" /\ v.s = s

----------------------------------------------------------------------------
\* The lookup service, seen from url_request: the body it answers for each
\* domain asked about.

Domains ==
  {"malicious.test", "unknown.test", "suspicious.test", "lowercase.test",
   "later.test", "nofield.test", "classnull.test", "empty.test",
   "nodata.test", "scalar.test", "truncated.test", "blank.test"}

ServiceBody(d) ==
  CASE d = "malicious.test" -> DataDoc(Record(MALICIOUS))
    [] d = "unknown.test" -> DataDoc(Record(UNKNOWN))
    [] d = "suspicious.test" -> DataDoc(Record(SUSPICIOUS))
    [] d = "lowercase.test" -> DataDoc(Record(LowerMalicious))
    [] d = "later.test" ->
         DataDoc(Record(LowerMalicious) \o <<",">> \o Record(MALICIOUS))
    [] d = "nofield.test" -> DataDoc(<<"{", "}">>)
    [] d = "classnull.test" ->
         DataDoc(<<"{">> \o Quoted(KeyClassification) \o <<":">> \o LitNull \o <<"}">>)
    [] d = "empty.test" -> DataDoc(<<>>)
    [] d = "nodata.test" -> <<"{", "}">>
    [] d = "scalar.test" -> Quoted(MALICIOUS)
    [] d = "truncated.test" -> <<"{">> \o Quoted(KeyData) \o <<":", "[">>
    [] d = "blank.test" -> <<>>

----------------------------------------------------------------------------
\* The domain-classification lookup: malicious_domain_status and url_request,
\* one action per step that touches the network or the file system.

Calls == 1..NumCalls

Ended == {"returned", "panicked"}

\* write_all of text b at offset 0 of a file holding old.
Overwrite(old, b) == b \o SubSeq(old, Len(b) + 1, Len(old))

\* Classify, reading the last element of the data array instead of the first.
ClassifyLast(v) ==
  LET data == IndexKey(v, KeyData)
      n == IF data.t = "arr" /\ Len(data.a) > 0 THEN Len(data.a) - 1 ELSE 0
      c == IndexKey(IndexPos(data, n), KeyClassification)
  IN IF EqStr(c, MALICIOUS) THEN "Malicious"
     ELSE IF EqStr(c, UNKNOWN) THEN "Unknown"
     ELSE IF EqStr(c, SUSPICIOUS) THEN "Suspicious"
     ELSE "No classification available"

\* Lines 294-302: the classification of a parsed document.
Classify(v) ==
  LET c == IndexKey(IndexPos(IndexKey(v, KeyData), 0), KeyClassification) IN
  IF EqStr(c, MALICIOUS) THEN "Malicious"
  ELSE IF EqStr(c, UNKNOWN) THEN "Unknown"
  ELSE IF EqStr(c, SUSPICIOUS) THEN "Suspicious"
  ELSE "No classification available"

Panic(c, msg) ==
  /\ pc' = [pc EXCEPT ![c] = "panicked"]
  /\ result' = [result EXCEPT ![c] = msg]

Did(c, step) == steps' = [steps EXCEPT ![c] = Append(@, step)]

\* Create, opening the file for writing without truncating it.
CreateKeep(c, d) ==
  /\ pc[c] = "idle"
  /\ domain' = [domain EXCEPT ![c] = d]
  /\ found' = [found EXCEPT ![c] = IF fileExists THEN <<"file">> \o fileContent ELSE <<"absent">>]
  /\ fileExists' = TRUE
  /\ fileContent' = fileContent
  /\ handle' = [handle EXCEPT ![c] = "linked"]
  /\ pc' = [pc EXCEPT ![c] = "request"]
  /\ Did(c, "create")
  /\ UNCHANGED <<body, json_convert, result>>
  /\ UNCHANGED otherThanLookup

\* File::create: creates the file, or truncates the one that is there.
Create(c, d) ==
  /\ pc[c] = "idle"
  /\ domain' = [domain EXCEPT ![c] = d]
  /\ found' = [found EXCEPT ![c] = IF fileExists THEN <<"file">> \o fileContent ELSE <<"absent">>]
  /\ fileExists' = TRUE
  /\ fileContent' = <<>>
  /\ handle' = [handle EXCEPT ![c] = "linked"]
  /\ pc' = [pc EXCEPT ![c] = "request"]
  /\ Did(c, "create")
  /\ UNCHANGED <<body, json_convert, result>>
  /\ UNCHANGED otherThanLookup

\* Request, sending the request a second time after the first answer.
RequestTwice(c) ==
  /\ pc[c] = "request"
  /\ body' = [body EXCEPT ![c] = ServiceBody(domain[c])]
  /\ pc' = [pc EXCEPT ![c] = "write"]
  /\ steps' = [steps EXCEPT ![c] = @ \o <<"request", "request">>]
  /\ UNCHANGED <<domain, fileExists, fileContent, handle, json_convert, result, found>>
  /\ UNCHANGED otherThanLookup

\* client.get(form_url).send().await?.text().await? succeeds with the body.
Request(c) ==
  /\ pc[c] = "request"
  /\ body' = [body EXCEPT ![c] = ServiceBody(domain[c])]
  /\ pc' = [pc EXCEPT ![c] = "write"]
  /\ Did(c, "request")
  /\ UNCHANGED <<domain, fileExists, fileContent, handle, json_convert, result, found>>
  /\ UNCHANGED otherThanLookup

\* The request fails: `?` returns the error, file is dropped, and the caller's
\* unwrap panics.
RequestFail(c) ==
  /\ pc[c] = "request"
  /\ handle' = [handle EXCEPT ![c] = "none"]
  /\ Panic(c, "panic: unwrap on Err: request")
  /\ Did(c, "request")
  /\ UNCHANGED <<domain, fileExists, fileContent, body, json_convert, found>>
  /\ UNCHANGED otherThanLookup

\* file.write_all(body.as_bytes()), then Ok(body) drops the file.
Write(c) ==
  /\ pc[c] = "write"
  /\ fileContent' = IF handle[c] = "linked" THEN Overwrite(fileContent, body[c])
                    ELSE fileContent
  /\ handle' = [handle EXCEPT ![c] = "none"]
  /\ pc' = [pc EXCEPT ![c] = "read"]
  /\ Did(c, "write")
  /\ UNCHANGED <<domain, fileExists, body, json_convert, result, found>>
  /\ UNCHANGED otherThanLookup

\* write_all fails (the device is full): expect panics.
WriteFail(c) ==
  /\ pc[c] = "write"
  /\ handle' = [handle EXCEPT ![c] = "none"]
  /\ Panic(c, "panic: Failed to write to file")
  /\ Did(c, "write")
  /\ UNCHANGED <<domain, fileExists, fileContent, body, json_convert, found>>
  /\ UNCHANGED otherThanLookup

\* std::fs::read_to_string(&json_file).expect("Unable to locate file")
Read(c) ==
  /\ pc[c] = "read"
  /\ Did(c, "read")
  /\ IF fileExists
     THEN /\ json_convert' = [json_convert EXCEPT ![c] = fileContent]
          /\ pc' = [pc EXCEPT ![c] = "parse"]
          /\ UNCHANGED result
     ELSE /\ Panic(c, "panic: Unable to locate file")
          /\ UNCHANGED json_convert
  /\ UNCHANGED <<domain, fileExists, fileContent, handle, body, found>>
  /\ UNCHANGED otherThanLookup

\* serde_json::from_str::<Value>(&json_convert).unwrap()
Parse(c) ==
  /\ pc[c] = "parse"
  /\ Did(c, "parse")
  /\ IF from_str(json_convert[c]).ok
     THEN /\ pc' = [pc EXCEPT ![c] = "remove"]
          /\ UNCHANGED result
     ELSE Panic(c, "panic: unwrap on Err: parse")
  /\ UNCHANGED <<domain, fileExists, fileContent, handle, body, json_convert, found>>
  /\ UNCHANGED otherThanLookup

\* fs::remove_file("/tmp/mercy_domain_review.json").unwrap(): unlinks the path;
\* a File still open on it keeps the unlinked file.
Remove(c) ==
  /\ pc[c] = "remove"
  /\ Did(c, "remove")
  /\ IF fileExists
     THEN /\ fileExists' = FALSE
          /\ fileContent' = <<>>
          /\ handle' = [o \in Calls |-> IF handle[o] = "linked" THEN "orphan" ELSE handle[o]]
          /\ pc' = [pc EXCEPT ![c] = "classify"]
          /\ UNCHANGED result
     ELSE /\ Panic(c, "panic: unwrap on Err: remove_file")
          /\ UNCHANGED <<fileExists, fileContent, handle>>
  /\ UNCHANGED <<domain, body, json_convert, found>>
  /\ UNCHANGED otherThanLookup

\* Lines 294-302: the String returned.
Return(c) ==
  /\ pc[c] = "classify"
  /\ pc' = [pc EXCEPT ![c] = "returned"]
  /\ result' = [result EXCEPT ![c] = Classify(from_str(json_convert[c]).v)]
  /\ UNCHANGED <<domain, fileExists, fileContent, handle, body, json_convert, steps, found>>
  /\ UNCHANGED otherThanLookup

InitLookup ==
  /\ pc = [c \in Calls |-> "idle"]
  /\ domain = [c \in Calls |-> ""]
  /\ fileExists = FALSE
  /\ fileContent = <<>>
  /\ handle = [c \in Calls |-> "none"]
  /\ body = [c \in Calls |-> <<>>]
  /\ json_convert = [c \in Calls |-> <<>>]
  /\ result = [c \in Calls |-> ""]
  /\ steps = [c \in Calls |-> <<>>]
  /\ found = [c \in Calls |-> <<>>]

Step(c) ==
  \/ Request(c)
  \/ RequestFail(c)
  \/ Write(c)
  \/ WriteFail(c)
  \/ Read(c)
  \/ Parse(c)
  \/ Remove(c)
  \/ Return(c)

----------------------------------------------------------------------------
\* rot13_decode (lines 143-166) on strings of code points up to U+00FF.

\* char::is_lowercase and char::is_uppercase: the Unicode properties Lowercase
\* and Uppercase, for the code points up to U+00FF.
is_lowercase(x) ==
  \/ x \in 97..122
  \/ x \in {170, 181, 186}
  \/ x \in 223..246
  \/ x \in 248..255

is_uppercase(x) ==
  \/ x \in 65..90
  \/ x \in 192..214
  \/ x \in 216..222

\* Lines 150-162: one character. The arithmetic is u32 and cannot wrap: a
\* lowercase code point is at least 'a' (97), an uppercase one at least 'A'
\* (65), and none exceeds U+10FFFF.
rot13_char(x) ==
  IF is_lowercase(x) THEN ((x - 97 + 13) % 26) + 97
  ELSE IF is_uppercase(x) THEN ((x - 65 + 13) % 26) + 65
  ELSE x

rot13_decode(encoded_msg) ==
  [i \in 1..Len(encoded_msg) |-> rot13_char(encoded_msg[i])]

\* a m n z A Z 0 space, and e-acute, E-acute, sharp s, the multiplication sign
RotChars == {97, 109, 110, 122, 65, 90, 48, 32, 233, 201, 223, 215}

RotStrings == UNION {[1..n -> RotChars] : n \in 0..MaxLen}

RotIdle == rotIn = <<>> /\ rotOut = <<>> /\ rotCount = 0

InitRot ==
  /\ rotIn \in RotStrings
  /\ rotOut = rotIn
  /\ rotCount = 0

\* mercy_decode("rot13", s) applied to the last result.
Rot13 ==
  /\ rotCount < 2
  /\ rotOut' = rot13_decode(rotOut)
  /\ rotCount' = rotCount + 1
  /\ UNCHANGED rotIn
  /\ UNCHANGED <<lookupVars, hexVars, dispVars, sysVars>>

----------------------------------------------------------------------------
\* collect_file_hex and byte_to_vec (lines 197-223), with another process
\* that creates and deletes the path.

Bytes == {65, 66}

Contents == UNION {[1..n -> Bytes] : n \in 0..MaxLen}

NotFoundMsg == "Unable to locate the file specified"

\* file.read(&mut buffer): copies the next bytes of the file to the start of
\* the buffer and returns the new offset.
ReadInto(file, off, buf) ==
  LET n == IF Len(file) - off < Len(buf) THEN Len(file) - off ELSE Len(buf) IN
  [buf |-> [i \in 1..Len(buf) |-> IF i <= n THEN file[off + i] ELSE buf[i]],
   off |-> off + n]

\* Lines 203-210: one read per index of the buffer.
RECURSIVE ReadLoop(_, _, _, _)
ReadLoop(file, off, buf, left) ==
  IF left = 0 THEN buf
  ELSE LET r == ReadInto(file, off, buf) IN ReadLoop(file, r.off, r.buf, left - 1)

HexIdle ==
  /\ hexPc = "idle"
  /\ pathExists = FALSE
  /\ pathContent = <<>>
  /\ hexFile = <<>>
  /\ hexBuffer = <<>>
  /\ hexOpenMissing = FALSE
  /\ hexResult = ""

InitHex ==
  /\ hexPc = "exists"
  /\ pathExists \in BOOLEAN
  /\ pathContent \in (IF pathExists THEN Contents ELSE {<<>>})
  /\ hexFile = <<>>
  /\ hexBuffer = <<>>
  /\ hexOpenMissing = FALSE
  /\ hexResult = ""

HexPanic(msg) == hexPc' = "panicked" /\ hexResult' = msg

\* Line 217: Path::new(convert_file).exists()
HexExists ==
  /\ hexPc = "exists"
  /\ IF pathExists
     THEN hexPc' = "open" /\ UNCHANGED hexResult
     ELSE hexPc' = "done" /\ hexResult' = NotFoundMsg
  /\ UNCHANGED <<pathExists, pathContent, hexFile, hexBuffer, hexOpenMissing>>
  /\ UNCHANGED <<lookupVars, rotVars, dispVars, sysVars>>

\* Line 198: File::open(&filename).expect("Unable to locate file")
HexOpen ==
  /\ hexPc = "open"
  /\ IF pathExists
     THEN /\ hexFile' = pathContent
          /\ hexPc' = "metadata"
          /\ UNCHANGED <<hexOpenMissing, hexResult>>
     ELSE /\ hexOpenMissing' = TRUE
          /\ HexPanic("panic: Unable to locate file")
          /\ UNCHANGED hexFile
  /\ UNCHANGED <<pathExists, pathContent, hexBuffer>>
  /\ UNCHANGED <<lookupVars, rotVars, dispVars, sysVars>>

\* Lines 199-200: fs::metadata(&filename), by path, and the zeroed buffer.
HexMetadata ==
  /\ hexPc = "metadata"
  /\ IF pathExists
     THEN /\ hexBuffer' = [i \in 1..Len(pathContent) |-> 0]
          /\ hexPc' = "read"
          /\ UNCHANGED hexResult
     ELSE /\ HexPanic("panic: Unable to read file metadata")
          /\ UNCHANGED hexBuffer
  /\ UNCHANGED <<pathExists, pathContent, hexFile, hexOpenMissing>>
  /\ UNCHANGED <<lookupVars, rotVars, dispVars, sysVars>>

\* Lines 203-212 and 219: the reads, then hexdump prints the buffer and the
\* unit value it returns is formatted.
HexRead ==
  /\ hexPc = "read"
  /\ hexBuffer' = ReadLoop(hexFile, 0, hexBuffer, Len(hexBuffer))
  /\ hexPc' = "done"
  /\ hexResult' = "()"
  /\ UNCHANGED <<pathExists, pathContent, hexFile, hexOpenMissing>>
  /\ UNCHANGED <<lookupVars, rotVars, dispVars, sysVars>>

\* The other process creates the path.
EnvCreate(content) ==
  /\ hexPc \notin {"done", "panicked"}
  /\ ~pathExists
  /\ pathExists' = TRUE
  /\ pathContent' = content
  /\ UNCHANGED <<hexPc, hexFile, hexBuffer, hexOpenMissing, hexResult>>
  /\ UNCHANGED <<lookupVars, rotVars, dispVars, sysVars>>

\* The other process deletes the path.
EnvDelete ==
  /\ hexPc \notin {"done", "panicked"}
  /\ pathExists
  /\ pathExists' = FALSE
  /\ pathContent' = <<>>
  /\ UNCHANGED <<hexPc, hexFile, hexBuffer, hexOpenMissing, hexResult>>
  /\ UNCHANGED <<lookupVars, rotVars, dispVars, sysVars>>

----------------------------------------------------------------------------
\* The dispatch functions (lines 55-127): each returns a message, or calls
\* one handler with the payload.

Msg(text) == [kind |-> "msg", what |-> text, arg |-> ""]
Handler(name, arg) == [kind |-> "call", what |-> name, arg |-> arg]

\* Lines 271-273.
unknown_msg(custom_msg) == Msg(custom_msg)

mercy_decode(mercy_call, mercy_string) ==
  CASE mercy_call = "base64" -> Handler("base64_decode", mercy_string)
    [] mercy_call = "rot13" -> Handler("rot13_decode", mercy_string)
    [] OTHER -> unknown_msg("Unable to decode message")

\* mercy_encode with the rot13 arm of mercy_decode copied into it.
mercy_encode_rot13(mercy_call, mercy_string) ==
  CASE mercy_call = "base64" -> Handler("base64_encode", mercy_string)
    [] mercy_call = "rot13" -> Handler("rot13_decode", mercy_string)
    [] OTHER -> unknown_msg("Unable to encode message")

mercy_encode(mercy_call, mercy_string) ==
  CASE mercy_call = "base64" -> Handler("base64_encode", mercy_string)
    [] OTHER -> unknown_msg("Unable to encode message")

mercy_hash(mercy_call, mercy_string) ==
  CASE mercy_call = "sha2_256" -> Handler("sha2_256_hash", mercy_string)
    [] mercy_call = "md5" -> Handler("md5_hash", mercy_string)
    [] OTHER -> unknown_msg("Unable to hash message")

mercy_hex(mercy_call, mercy_file) ==
  CASE mercy_call = "hex_dump" -> Handler("collect_file_hex", mercy_file)
    [] OTHER -> unknown_msg("Unable to provide hexadecimal dump for file specified")

mercy_malicious(mercy_call, mercy_domain) ==
  CASE mercy_call = "status" -> Handler("malicious_domain_status", mercy_domain)
    [] OTHER -> unknown_msg("Unable to classify domain")

mercy_extra(mercy_call, mercy_choose) ==
  CASE mercy_call = "internal_ip" -> Handler("internal_ip", "")
    [] mercy_call = "system_info" -> Handler("system_info", mercy_choose)
    [] mercy_call = "defang" -> Handler("defang", mercy_choose)
    [] mercy_call = "whois" -> Handler("whois_lookup", mercy_choose)
    [] OTHER -> unknown_msg("Unable to provide the information you requested")

\* What each handler touches: files, the network, operating-system queries.
HandlerEffects(name) ==
  CASE name = "collect_file_hex" -> {"file"}
    [] name = "malicious_domain_status" -> {"file", "network"}
    [] name = "internal_ip" -> {"network"}
    [] name = "system_info" -> {"os"}
    [] name = "whois_lookup" -> {"network"}
    [] OTHER -> {}

EffectsOf(out) == IF out.kind = "call" THEN HandlerEffects(out.what) ELSE {}

Selectors ==
  {"base64", "rot13", "sha2_256", "md5", "hex_dump", "status", "internal_ip",
   "system_info", "defang", "whois", "BASE64", "sha256", "all", "hostname", ""}

Payloads == {"", "aGk=", "/etc/hostname", "example.com"}

DispIdle ==
  /\ dispCall = <<"", "", "">>
  /\ dispOut = Msg("")
  /\ dispEffects = {}

CallDecode(sel, p) ==
  /\ dispCall' = <<"mercy_decode", sel, p>>
  /\ dispOut' = mercy_decode(sel, p)
  /\ dispEffects' = EffectsOf(mercy_decode(sel, p))
  /\ UNCHANGED <<lookupVars, rotVars, hexVars, sysVars>>

CallEncode(sel, p) ==
  /\ dispCall' = <<"mercy_encode", sel, p>>
  /\ dispOut' = mercy_encode(sel, p)
  /\ dispEffects' = EffectsOf(mercy_encode(sel, p))
  /\ UNCHANGED <<lookupVars, rotVars, hexVars, sysVars>>

CallHash(sel, p) ==
  /\ dispCall' = <<"mercy_hash", sel, p>>
  /\ dispOut' = mercy_hash(sel, p)
  /\ dispEffects' = EffectsOf(mercy_hash(sel, p))
  /\ UNCHANGED <<lookupVars, rotVars, hexVars, sysVars>>

CallHex(sel, p) ==
  /\ dispCall' = <<"mercy_hex", sel, p>>
  /\ dispOut' = mercy_hex(sel, p)
  /\ dispEffects' = EffectsOf(mercy_hex(sel, p))
  /\ UNCHANGED <<lookupVars, rotVars, hexVars, sysVars>>

CallMalicious(sel, p) ==
  /\ dispCall' = <<"mercy_malicious", sel, p>>
  /\ dispOut' = mercy_malicious(sel, p)
  /\ dispEffects' = EffectsOf(mercy_malicious(sel, p))
  /\ UNCHANGED <<lookupVars, rotVars, hexVars, sysVars>>

CallExtra(sel, p) ==
  /\ dispCall' = <<"mercy_extra", sel, p>>
  /\ dispOut' = mercy_extra(sel, p)
  /\ dispEffects' = EffectsOf(mercy_extra(sel, p))
  /\ UNCHANGED <<lookupVars, rotVars, hexVars, sysVars>>

----------------------------------------------------------------------------
\* system_info (lines 236-249).

OsValues == <<"hostname", "cpu_num", "cpu_speed", "os_release", "proc_total">>

OsNames == {OsValues[i] : i \in 1..Len(OsValues)}

\* What sys_info answers on this host when it exposes the value.
OsValue(name) ==
  CASE name = "hostname" -> "host"
    [] name = "cpu_num" -> "4"
    [] name = "cpu_speed" -> "2400"
    [] name = "os_release" -> "6.1.0"
    [] name = "proc_total" -> "120"

\* hostname(), cpu_num(), ...: Ok(value) or Err.
Query(name) == [ok |-> name \in exposed, v |-> OsValue(name)]

SysPanic(name) == <<"panic: unwrap on Err", name>>

\* The first query of line 238, in argument order, that fails; 0 if none does.
RECURSIVE FirstFailing(_)
FirstFailing(i) ==
  IF i > Len(OsValues) THEN 0
  ELSE IF ~Query(OsValues[i]).ok THEN i
  ELSE FirstFailing(i + 1)

\* One arm of the match: the query, unwrapped and formatted.
Arm(label, name, suffix) ==
  IF Query(name).ok THEN <<label, Query(name).v, suffix>> ELSE SysPanic(name)

system_info(data) ==
  IF FirstFailing(1) # 0 THEN SysPanic(OsValues[FirstFailing(1)])
  ELSE CASE data = "hostname" -> Arm("Hostname: ", "hostname", "")
         [] data = "cpu_cores" -> Arm("Number of CPU cores: ", "cpu_num", "")
         [] data = "cpu_speed" -> Arm("CPU Fan Speed: ", "cpu_speed", " MHz")
         [] data = "os_release" ->
              Arm("Operating System Release Version: ", "os_release", "")
         [] data = "proc" -> Arm("Number of Processes: ", "proc_total", "")
         [] data = "all" ->
              <<"\nHostname: ", OsValue("hostname"),
                "\nNumber of CPU cores: ", OsValue("cpu_num"),
                "\nCPU Fan Speed: ", OsValue("cpu_speed"), " MHz",
                "\nOperating System Release Version: ", OsValue("os_release"),
                "\nNumber of Processes: ", OsValue("proc_total"), "\n">>
         [] OTHER -> <<"Unable to gather system information">>

SubSelectors ==
  {"hostname", "cpu_cores", "cpu_speed", "os_release", "proc", "all",
   "uptime", ""}

SysIdle == exposed = {} /\ sysData = "none" /\ sysResult = <<>>

InitSys ==
  /\ exposed \in SUBSET OsNames
  /\ sysData = "none"
  /\ sysResult = <<>>

SystemInfo(data) ==
  /\ sysData' = data
  /\ sysResult' = system_info(data)
  /\ UNCHANGED exposed
  /\ UNCHANGED <<lookupVars, rotVars, hexVars, dispVars>>

----------------------------------------------------------------------------
\* The specifications.

\* Lookups on concurrent threads of one process, for domains whose bodies
\* differ in class, in length and in being well formed.
ConcDomains == {"malicious.test", "unknown.test", "nodata.test", "truncated.test"}

InitConc == InitLookup /\ RotIdle /\ HexIdle /\ DispIdle /\ SysIdle

NextConc ==
  \E c \in Calls :
    \/ \E d \in ConcDomains : Create(c, d)
    \/ Step(c)

SpecConc == InitConc /\ [][NextConc]_vars

\* Lookups one after the other: a call starts when no other is in flight.
NoneInFlight == \A o \in Calls : pc[o] \in Ended \cup {"idle"}

SeqCreate(c, d) == NoneInFlight /\ Create(c, d)

InitSeq == InitLookup /\ RotIdle /\ HexIdle /\ DispIdle /\ SysIdle

NextSeq ==
  \E c \in Calls :
    \/ \E d \in Domains : SeqCreate(c, d)
    \/ Step(c)

SpecSeq == InitSeq /\ [][NextSeq]_vars

\* rot13 applied to a string, and again to the result.
InitRotSpec == InitLookup /\ InitRot /\ HexIdle /\ DispIdle /\ SysIdle

NextRot == Rot13

SpecRot == InitRotSpec /\ [][NextRot]_vars

\* One hex dump of a path another process creates and deletes.
InitHexSpec == InitLookup /\ RotIdle /\ InitHex /\ DispIdle /\ SysIdle

NextHex ==
  \/ HexExists
  \/ HexOpen
  \/ HexMetadata
  \/ HexRead
  \/ \E content \in Contents : EnvCreate(content)
  \/ EnvDelete

SpecHex == InitHexSpec /\ [][NextHex]_vars

\* Calls of the six dispatch functions.
InitDispatch == InitLookup /\ RotIdle /\ HexIdle /\ DispIdle /\ SysIdle

NextDispatch ==
  \E sel \in Selectors, p \in Payloads :
    \/ CallDecode(sel, p)
    \/ CallEncode(sel, p)
    \/ CallHash(sel, p)
    \/ CallHex(sel, p)
    \/ CallMalicious(sel, p)
    \/ CallExtra(sel, p)

SpecDispatch == InitDispatch /\ [][NextDispatch]_vars

\* Calls of system_info on a host that exposes some of the five values.
InitSysSpec == InitLookup /\ RotIdle /\ HexIdle /\ DispIdle /\ InitSys

NextSys == \E data \in SubSelectors : SystemInfo(data)

SpecSys == InitSysSpec /\ [][NextSys]_vars

Spec == SpecConc

----------------------------------------------------------------------------
\* The properties.

IsPrefix(s, t) == Len(s) <= Len(t) /\ SubSeq(t, 1, Len(s)) = s

\* The read of call c succeeded: it holds the text it read back.
ReadBack(c) ==
  \/ pc[c] \in {"parse", "remove", "classify", "returned"}
  \/ pc[c] = "panicked" /\ Len(steps[c]) >= 5

\* The classification the claims give for a response text: the three known
\* values in the first record, and the unclassified value for anything else.
ExpectedOf(text) ==
  CASE text = DataDoc(Record(MALICIOUS)) -> "Malicious"
    [] text = DataDoc(Record(UNKNOWN)) -> "Unknown"
    [] text = DataDoc(Record(SUSPICIOUS)) -> "Suspicious"
    [] OTHER -> "No classification available"

\* C1: of two lookups for different domains whose services answer different
\* bodies, each one that returns a classification returns the classification
\* of its own response body, under every interleaving of their steps.
NoCrossContamination ==
  \A c \in Calls, o \in Calls :
    ( /\ c # o
      /\ pc[c] = "returned"
      /\ domain[o] # "" /\ domain[o] # domain[c]
      /\ ServiceBody(domain[o]) # ServiceBody(domain[c]) )
    => result[c] = ExpectedOf(ServiceBody(domain[c]))

\* The text is a document whose data array has a first element.
HasFirstElement(text) ==
  LET r == from_str(text) IN
  /\ r.ok
  /\ IndexKey(r.v, KeyData).t = "arr"
  /\ Len(IndexKey(r.v, KeyData).a) >= 1

\* C2: a lookup in which a step failed (the request, the read of the artifact,
\* the parse, or the data array having no first element) never returns a
\* classification value: a call that returned read a document with a first
\* element.
FailedStepNeverClassifies ==
  \A c \in Calls : pc[c] = "returned" => HasFirstElement(json_convert[c])

\* C3: when a lookup has ended, returned or failed, and no other is running,
\* the artifact it created no longer exists.
ArtifactGoneAfterCall ==
  \A c \in Calls :
    (pc[c] \in Ended /\ Len(steps[c]) >= 1 /\ NoneInFlight) => ~fileExists

\* The order of the steps in the claim (the artifact is first touched, to
\* persist the body, after the response), and the order in the code.
ClaimedOrder == <<"request", "create", "write", "read", "parse", "remove">>
CodeOrder == <<"create", "request", "write", "read", "parse", "remove">>

\* C4, as stated: the steps of a lookup are request, persist, reload, parse,
\* cleanup in this order, the artifact untouched before the response; none is
\* skipped on a successful call; one request per call.
StepsInClaimedOrder ==
  \A c \in Calls :
    /\ IsPrefix(steps[c], ClaimedOrder)
    /\ pc[c] = "returned" => steps[c] = ClaimedOrder

\* C4, amended: the steps of a lookup are create (the artifact, empty),
\* request, write (the body), reload, parse, cleanup in this order; none is
\* skipped on a successful call; one request per call.
StepsInCodeOrder ==
  \A c \in Calls :
    /\ IsPrefix(steps[c], CodeOrder)
    /\ pc[c] = "returned" => steps[c] = CodeOrder

\* C4's case: a call returned while another call was under way.
StepsWitness ==
  \E c \in Calls, o \in Calls :
    /\ c # o
    /\ pc[c] = "returned"
    /\ pc[o] \notin Ended \cup {"idle"}

\* C5: the result of a lookup that parsed its document is decided by the
\* classification of the first element of data alone, by exact match:
\* MALICIOUS, UNKNOWN and SUSPICIOUS give Malicious, Unknown and Suspicious,
\* anything else gives the unclassified result.
FirstElementDecides ==
  \A c \in Calls : pc[c] = "returned" => result[c] = ExpectedOf(json_convert[c])

\* C5's case: one call returned Malicious, and another returned the
\* unclassified result for a document whose second element is MALICIOUS.
FirstElementWitness ==
  \E c \in Calls, o \in Calls :
    /\ pc[c] = "returned" /\ domain[c] = "malicious.test"
    /\ result[c] = "Malicious"
    /\ pc[o] = "returned" /\ domain[o] = "later.test"
    /\ result[o] = "No classification available"

\* C6: rot13 applied twice gives the string back.
Rot13Involution == rotCount = 2 => rotOut = rotIn

\* C7: a hex dump whose File::open finds the path missing returns the
\* not-found message and does not panic.
MissingAtOpenIsNotFound ==
  hexOpenMissing => (hexPc = "done" /\ hexResult = NotFoundMsg)

\* The selectors each dispatch function documents, and its fixed message.
Recognized(fn) ==
  CASE fn = "mercy_decode" -> {"base64", "rot13"}
    [] fn = "mercy_encode" -> {"base64"}
    [] fn = "mercy_hash" -> {"sha2_256", "md5"}
    [] fn = "mercy_hex" -> {"hex_dump"}
    [] fn = "mercy_malicious" -> {"status"}
    [] fn = "mercy_extra" -> {"internal_ip", "system_info", "defang", "whois"}

FixedMessage(fn) ==
  CASE fn = "mercy_decode" -> "Unable to decode message"
    [] fn = "mercy_encode" -> "Unable to encode message"
    [] fn = "mercy_hash" -> "Unable to hash message"
    [] fn = "mercy_hex" -> "Unable to provide hexadecimal dump for file specified"
    [] fn = "mercy_malicious" -> "Unable to classify domain"
    [] fn = "mercy_extra" -> "Unable to provide the information you requested"

\* C8: a dispatch function called with a selector outside its recognized set
\* returns its fixed message, whatever the payload, calls no handler (so it
\* cannot panic) and performs no file, network or operating-system query.
UnknownSelectorGivesMessage ==
  (dispCall[1] # "" /\ dispCall[2] \notin Recognized(dispCall[1]))
    => /\ dispOut = [kind |-> "msg", what |-> FixedMessage(dispCall[1]), arg |-> ""]
       /\ dispEffects = {}

\* C8's case: mercy_encode called with rot13, which only mercy_decode knows.
UnknownSelectorWitness ==
  /\ dispCall = <<"mercy_encode", "rot13", "aGk=">>
  /\ dispOut.kind = "msg"

\* The value each single-value sub-selector asks the operating system for,
\* and the String it is formatted into.
AskedFor(data) ==
  CASE data = "hostname" -> "hostname"
    [] data = "cpu_cores" -> "cpu_num"
    [] data = "cpu_speed" -> "cpu_speed"
    [] data = "os_release" -> "os_release"
    [] data = "proc" -> "proc_total"

Formatted(data) ==
  CASE data = "hostname" -> <<"Hostname: ", "host", "">>
    [] data = "cpu_cores" -> <<"Number of CPU cores: ", "4", "">>
    [] data = "cpu_speed" -> <<"CPU Fan Speed: ", "2400", " MHz">>
    [] data = "os_release" -> <<"Operating System Release Version: ", "6.1.0", "">>
    [] data = "proc" -> <<"Number of Processes: ", "120", "">>

SingleSelectors == {"hostname", "cpu_cores", "cpu_speed", "os_release", "proc"}

\* C9: a system_info query for one value succeeds whenever the operating
\* system exposes that value, whatever else it exposes; an unrecognized
\* sub-selector returns its message whatever the operating system exposes.
ValuesFailIndependently ==
  /\ (sysData \in SingleSelectors /\ AskedFor(sysData) \in exposed)
       => sysResult = Formatted(sysData)
  /\ (sysData \notin SingleSelectors \cup {"all", "none"})
       => sysResult = <<"Unable to gather system information">>

\* C10: in a sequence of lookups that do not overlap, a call that read the
\* artifact back read exactly the body of its own response, whatever earlier
\* calls left at the path, and what it returns is the classification of that
\* body.
ReadsOwnBody ==
  \A c \in Calls :
    /\ ReadBack(c) => json_convert[c] = ServiceBody(domain[c])
    /\ pc[c] = "returned" => result[c] = ExpectedOf(ServiceBody(domain[c]))

\* C10's case: a call returned that had found, left at the path by an earlier
\* call, a text longer than its own response body.
ReadsOwnBodyWitness ==
  \E c \in Calls :
    /\ pc[c] = "returned"
    /\ found[c][1] = "file"
    /\ Len(found[c]) - 1 > Len(body[c])

====
